---- MODULE Spec2Model ----
(***************************************************************************)
(* reckon::base -- a blocking "expect" layer over one subprocess.          *)
(*                                                                         *)
(* The model follows src/src/base.rs: Process::new, Process::emit,         *)
(* Process::expect and Drop::drop, together with the operating-system      *)
(* objects they act on (the subprocess, its stdin pipe and its stdout      *)
(* pipe) and the byte-at-a-time UTF-8 decoder behind `stdout.chars()`.     *)
(*                                                                         *)
(* Bytes and characters are numbers: a byte is its value (97 = 'a'), a     *)
(* character is its code point (233 = U+00E9, encoded as 195 169).         *)
(***************************************************************************)
EXTENDS Integers, Sequences, FiniteSets, TLC

(***************************************************************************)
(* Bounds of the exploration.                                              *)
(***************************************************************************)
MaxOut == 4          \* bytes the subprocess writes to its output in a run
OutCap == 2          \* capacity of the output pipe, in bytes
InCap == 1           \* capacity of the input pipe, in bytes
MaxTimeout == 1      \* largest timeout a caller passes, in clock ticks

\* The clock of one expect call saturates at the largest timeout: from there
\* on `e >= timeout` is true for ever, whatever the timeout.
MaxElapsed == MaxTimeout

(***************************************************************************)
(* Inputs.                                                                 *)
(***************************************************************************)
\* Bytes the subprocess may write: 'a', a two-byte lead (0xC3) and a
\* continuation byte (0xA9), which is not a valid first byte.
OutBytes == {97, 195, 169}

\* Texts a caller sends, as sequences of code points: "", "a", "\u{e9}".
EmitTexts == {<<>>, <<97>>, <<233>>}

\* Pattern lists a caller passes, as sequences of code points:
\* ["\u{e9}", "a\u{e9}"], ["a\u{e9}", "\u{e9}"], ["aa"], [""], and ["("],
\* which is not a regular expression.
NeedleLists ==
  { << <<233>>, <<97, 233>> >>,
    << <<97, 233>>, <<233>> >>,
    << <<97, 97>> >>,
    << <<>> >>,
    << <<40>> >> }

Timeouts == 0..MaxTimeout

(***************************************************************************)
(* State.                                                                  *)
(***************************************************************************)
VARIABLES
  spawned,   \* outcome of the process-creation request: "unborn", "ok", "err"
  sess,      \* the Process value: "none", "failed", "live", "released"
  child,     \* the subprocess: "none", "running", "exited" (by itself),
             \* "killed" (by the forced termination) -- in both it stays
             \* in the process table, not waited for --, or "reaped"
             \* (waited for: the process-table entry is released)
  fds,       \* the parent's three pipe handles: "none", "open", "closed"
  pc,        \* the caller's position: "idle", "emit", "check", "read",
             \* "cont", "panicked"
  inPipe,    \* bytes in the input pipe, not yet read by the subprocess
  data,      \* emit: the text passed to the running call
  rest,      \* emit: the bytes write_all has still to write
  sent,      \* emit: the bytes the pipe accepted during the running call
  out,       \* every byte the subprocess has written to its output
  pos,       \* number of bytes of out the parent has read
  needles,   \* expect: the pattern list of the running call
  timeout,   \* expect: the timeout of the running call
  elapsed,   \* expect: start_time.elapsed(), saturating at MaxElapsed
  b,         \* expect: the accumulator
  bsrc,      \* expect: for each character of b, the index in out of its
             \* first byte
  cbuf,      \* expect: bytes of the character being decoded
  torn,      \* expect: a failed read has dropped the first bytes of a
             \* character during the running call
  startPos,  \* expect: value of pos when the running call started
  killed,    \* the forced termination has been issued
  got,       \* history: the texts expect has returned so far, in call order,
             \* one after the other
  due,       \* history: a text in which a pattern of the running expect call
             \* matches was in the stream, from the call's start position
             \* on, before the deadline
  res        \* what the last call returned

vars == <<spawned, sess, child, fds, pc, inPipe, data, rest, sent, out, pos,
          needles, timeout, elapsed, b, bsrc, cbuf, torn, startPos, killed, got,
          due, res>>

emitVars == <<data, rest, sent>>
expectVars == <<needles, timeout, elapsed, b, bsrc, cbuf, torn, startPos>>
osVars == <<spawned, child, fds, killed>>
histVars == <<got, due>>

NoRes == [op |-> "none", kind |-> "none", idx |-> 0, text |-> <<>>]

Min(x, y) == IF x <= y THEN x ELSE y

Init ==
  /\ spawned = "unborn"
  /\ sess = "none"
  /\ child = "none"
  /\ fds = "none"
  /\ pc = "idle"
  /\ inPipe = <<>>
  /\ data = <<>>
  /\ rest = <<>>
  /\ sent = <<>>
  /\ out = <<>>
  /\ pos = 0
  /\ needles = <<>>
  /\ timeout = 0
  /\ elapsed = 0
  /\ b = <<>>
  /\ bsrc = <<>>
  /\ cbuf = <<>>
  /\ torn = FALSE
  /\ startPos = 0
  /\ killed = FALSE
  /\ got = <<>>
  /\ due = FALSE
  /\ res = NoRes

(***************************************************************************)
(* Process::new (base.rs 38-50).                                           *)
(***************************************************************************)
\* Command::spawn succeeded: the match arm Ok(c) => Ok(Process { child: c }).
new_ok ==
  /\ sess = "none"
  /\ spawned' = "ok"
  /\ sess' = "live"
  /\ child' = "running"
  /\ fds' = "open"
  /\ res' = [op |-> "new", kind |-> "ok", idx |-> 0, text |-> <<>>]
  /\ UNCHANGED <<pc, inPipe, out, pos, killed>>
  /\ UNCHANGED emitVars
  /\ UNCHANGED expectVars
  /\ UNCHANGED histVars

\* Variant of new_err: a session is handed out although nothing was spawned.
new_err_session ==
  /\ sess = "none"
  /\ spawned' = "err"
  /\ sess' = "live"
  /\ fds' = "open"
  /\ res' = [op |-> "new", kind |-> "ok", idx |-> 0, text |-> <<>>]
  /\ UNCHANGED <<child, pc, inPipe, out, pos, killed>>
  /\ UNCHANGED emitVars
  /\ UNCHANGED expectVars
  /\ UNCHANGED histVars

\* Command::spawn failed: the match arm Err(v) => Err(v).
new_err ==
  /\ sess = "none"
  /\ spawned' = "err"
  /\ sess' = "failed"
  /\ res' = [op |-> "new", kind |-> "err", idx |-> 0, text |-> <<>>]
  /\ UNCHANGED <<child, fds, pc, inPipe, out, pos, killed>>
  /\ UNCHANGED emitVars
  /\ UNCHANGED expectVars
  /\ UNCHANGED histVars

(***************************************************************************)
(* The pipes of the subprocess (requested by base.rs 39-44).               *)
(***************************************************************************)
\* Bytes in the output pipe that the parent has not read.
Avail == Len(out) - pos

(***************************************************************************)
(* Process::emit (base.rs 68-71): stdin.write_all(data.as_bytes()).        *)
(***************************************************************************)
\* The UTF-8 encoding of one character (a &str holds its text in UTF-8).
encode_utf8(cp) ==
  IF cp < 128 THEN <<cp>>
  ELSE IF cp < 2048 THEN <<192 + (cp \div 64), 128 + (cp % 64)>>
  ELSE IF cp < 65536
    THEN <<224 + (cp \div 4096), 128 + ((cp \div 64) % 64), 128 + (cp % 64)>>
    ELSE <<240 + (cp \div 262144), 128 + ((cp \div 4096) % 64),
           128 + ((cp \div 64) % 64), 128 + (cp % 64)>>

\* data.as_bytes(): the bytes handed to write_all.
RECURSIVE as_bytes(_)
as_bytes(d) ==
  IF d = <<>> THEN <<>> ELSE encode_utf8(Head(d)) \o as_bytes(Tail(d))

\* The locals of the previous call are gone when the next call starts.
NoExpect ==
  /\ needles' = <<>>
  /\ timeout' = 0
  /\ elapsed' = 0
  /\ b' = <<>>
  /\ bsrc' = <<>>
  /\ cbuf' = <<>>
  /\ torn' = FALSE
  /\ startPos' = 0

NoEmit ==
  /\ data' = <<>>
  /\ rest' = <<>>
  /\ sent' = <<>>

\* Variant of emit_enter: a line terminator is added to the text.
emit_enter_newline(d) ==
  /\ sess = "live"
  /\ pc = "idle"
  /\ data' = d
  /\ rest' = as_bytes(d) \o <<10>>
  /\ sent' = <<>>
  /\ pc' = "emit"
  /\ res' = NoRes
  /\ NoExpect
  /\ UNCHANGED <<sess, inPipe, out, pos>>
  /\ UNCHANGED osVars
  /\ due' = FALSE
  /\ UNCHANGED got

emit_enter(d) ==
  /\ sess = "live"
  /\ pc = "idle"
  /\ data' = d
  /\ rest' = as_bytes(d)
  /\ sent' = <<>>
  /\ pc' = "emit"
  /\ res' = NoRes
  /\ NoExpect
  /\ UNCHANGED <<sess, inPipe, out, pos>>
  /\ UNCHANGED osVars
  /\ due' = FALSE
  /\ UNCHANGED got

\* One turn of write_all's loop `while !buf.is_empty()`: return Ok(()) when
\* nothing is left; otherwise one write, which fails with EPIPE when the
\* reading end is closed, blocks while the pipe is full, and else hands over
\* at least one byte.
emit_write_all ==
  /\ pc = "emit"
  /\ IF rest = <<>>
       THEN /\ res' = [op |-> "emit", kind |-> "ok", idx |-> 0, text |-> <<>>]
            /\ pc' = "idle"
            /\ UNCHANGED <<inPipe, rest, sent>>
       ELSE IF child # "running"
         THEN /\ res' = [op |-> "emit", kind |-> "err", idx |-> 0,
                         text |-> <<>>]
              /\ pc' = "idle"
              /\ UNCHANGED <<inPipe, rest, sent>>
         ELSE /\ Len(inPipe) < InCap
              /\ \E n \in 1..Min(InCap - Len(inPipe), Len(rest)) :
                   /\ inPipe' = inPipe \o SubSeq(rest, 1, n)
                   /\ sent' = sent \o SubSeq(rest, 1, n)
                   /\ rest' = SubSeq(rest, n + 1, Len(rest))
              /\ UNCHANGED <<pc, res>>
  /\ UNCHANGED <<sess, data, out, pos>>
  /\ UNCHANGED osVars
  /\ UNCHANGED expectVars
  /\ UNCHANGED histVars

(***************************************************************************)
(* Process::expect (base.rs 144-176).                                      *)
(***************************************************************************)
\* RegexSet::new(&needles): a pattern compiles unless its parentheses are
\* unbalanced (the only syntax beyond literals that NeedleLists uses).
RECURSIVE Depth(_, _)
Depth(p, d) ==
  IF d < 0 THEN d
  ELSE IF p = <<>> THEN d
  ELSE Depth(Tail(p), IF Head(p) = 40 THEN d + 1
                      ELSE IF Head(p) = 41 THEN d - 1 ELSE d)

Compiles(p) == Depth(p, 0) = 0

RegexSetNew(ns) == \A i \in DOMAIN ns : Compiles(ns[i])

\* Regex search of a literal pattern: it matches anywhere in the text.
IsMatch(p, t) ==
  \E k \in 0..(Len(t) - Len(p)) : SubSeq(t, k + 1, k + Len(p)) = p

\* rs.matches(&b): the set of indexes (from 0) of the patterns that match.
SetMatches(ns, t) == {i \in 0..(Len(ns) - 1) : IsMatch(ns[i + 1], t)}

\* Variant of FirstYielded: the last matching index instead of the first.
LastYielded(S, i, n) ==
  IF S = {} THEN -1 ELSE CHOOSE x \in S : \A y \in S : y <= x

\* SetMatches::into_iter() yields the matching indexes in ascending order;
\* the body of the `for` returns at the first one.  -1: the iterator is empty.
RECURSIVE FirstYielded(_, _, _)
FirstYielded(S, i, n) ==
  IF i >= n THEN -1
  ELSE IF i \in S THEN i ELSE FirstYielded(S, i + 1, n)

\* core::str::utf8_char_width: length of the character a first byte starts,
\* 0 for a byte that cannot start one.
utf8_char_width(bt) ==
  IF bt < 128 THEN 1
  ELSE IF bt >= 194 /\ bt <= 223 THEN 2
  ELSE IF bt >= 224 /\ bt <= 239 THEN 3
  ELSE IF bt >= 240 /\ bt <= 244 THEN 4
  ELSE 0

IsCont(bt) == bt >= 128 /\ bt <= 191

\* Variant of from_utf8: the continuation bytes are not checked.
from_utf8_lax(buf) ==
  IF Len(buf) = 2 THEN (buf[1] - 192) * 64 + (buf[2] % 64)
  ELSE IF Len(buf) = 3
    THEN (buf[1] - 224) * 4096 + (buf[2] % 64) * 64 + (buf[3] % 64)
    ELSE (buf[1] - 240) * 262144 + (buf[2] % 64) * 4096
         + (buf[3] % 64) * 64 + (buf[4] % 64)

\* str::from_utf8 on the bytes of one character of width 2 to 4: its code
\* point, or -1 when the bytes are not a valid encoding.
from_utf8(buf) ==
  IF \E k \in 2..Len(buf) : ~IsCont(buf[k]) THEN -1
  ELSE IF Len(buf) = 2 THEN (buf[1] - 192) * 64 + (buf[2] - 128)
  ELSE IF Len(buf) = 3
    THEN LET cp == (buf[1] - 224) * 4096 + (buf[2] - 128) * 64
                   + (buf[3] - 128)
         IN IF cp < 2048 \/ (cp >= 55296 /\ cp <= 57343) THEN -1 ELSE cp
    ELSE LET cp == (buf[1] - 240) * 262144 + (buf[2] - 128) * 4096
                   + (buf[3] - 128) * 64 + (buf[4] - 128)
         IN IF cp < 65536 \/ cp > 1114111 THEN -1 ELSE cp

\* p occurs in t as a substring.
Occurs(p, t) ==
  \E s \in 1..(Len(t) + 1) : \E e \in (s - 1)..Len(t) : SubSeq(t, s, e) = p

\* The characters of a consumed stretch of the stream: what decoding the
\* bytes one character at a time yields when nothing but the bytes decides
\* (bytes that start no character, or do not complete one, are left out).
RECURSIVE Decoded(_)
Decoded(s) ==
  IF s = <<>> THEN <<>>
  ELSE LET w == utf8_char_width(s[1])
       IN IF w = 1 THEN <<s[1]>> \o Decoded(Tail(s))
          ELSE IF w = 0 THEN Decoded(Tail(s))
          ELSE IF Len(s) < w THEN <<>>
          ELSE LET cp == from_utf8(SubSeq(s, 1, w))
               IN (IF cp >= 0 THEN <<cp>> ELSE <<>>)
                    \o Decoded(SubSeq(s, w + 1, Len(s)))

\* The stream o holds, from the position sp on, a text (at least one
\* character) in which some pattern of ns occurs.
TextIn(ns, o, sp) ==
  LET t == Decoded(SubSeq(o, sp + 1, Len(o)))
  IN t # <<>> /\ \E i \in DOMAIN ns : Occurs(ns[i], t)

\* Variant of expect_enter: the accumulator of the previous call is kept.
expect_enter_keep(ns, t) ==
  /\ sess = "live"
  /\ pc = "idle"
  /\ needles' = ns
  /\ timeout' = t
  /\ elapsed' = 0
  /\ startPos' = pos
  /\ cbuf' = <<>>
  /\ torn' = FALSE
  /\ UNCHANGED <<b, bsrc>>
  /\ IF RegexSetNew(ns)
       THEN /\ pc' = "check"
            /\ res' = NoRes
       ELSE /\ pc' = "panicked"
            /\ res' = [op |-> "expect", kind |-> "panic", idx |-> 0,
                       text |-> <<>>]
  /\ NoEmit
  /\ UNCHANGED <<sess, inPipe, out, pos>>
  /\ UNCHANGED osVars
  /\ due' = (RegexSetNew(ns) /\ TextIn(ns, out, pos))
  /\ UNCHANGED got

\* Variant of expect_enter: the set is tested on the empty accumulator
\* before anything is read.
expect_enter_tested(ns, t) ==
  /\ sess = "live"
  /\ pc = "idle"
  /\ needles' = ns
  /\ timeout' = t
  /\ elapsed' = 0
  /\ startPos' = pos
  /\ cbuf' = <<>>
  /\ torn' = FALSE
  /\ b' = <<>>
  /\ bsrc' = <<>>
  /\ IF ~RegexSetNew(ns)
       THEN /\ pc' = "panicked"
            /\ res' = [op |-> "expect", kind |-> "panic", idx |-> 0,
                       text |-> <<>>]
       ELSE IF SetMatches(ns, <<>>) # {}
         THEN /\ pc' = "idle"
              /\ res' = [op |-> "expect", kind |-> "match",
                         idx |-> FirstYielded(SetMatches(ns, <<>>), 0,
                                              Len(ns)),
                         text |-> <<>>]
         ELSE /\ pc' = "check"
              /\ res' = NoRes
  /\ NoEmit
  /\ UNCHANGED <<sess, inPipe, out, pos>>
  /\ UNCHANGED osVars
  /\ due' = (RegexSetNew(ns) /\ TextIn(ns, out, pos))
  /\ UNCHANGED got

\* Lines 148-154: start_time, the compiled set, the empty accumulator and the
\* character iterator.  RegexSet::new(..).unwrap() panics on a pattern list
\* that does not compile.
expect_enter(ns, t) ==
  /\ sess = "live"
  /\ pc = "idle"
  /\ needles' = ns
  /\ timeout' = t
  /\ elapsed' = 0
  /\ startPos' = pos
  /\ cbuf' = <<>>
  /\ torn' = FALSE
  /\ b' = <<>>
  /\ bsrc' = <<>>
  /\ IF RegexSetNew(ns)
       THEN /\ pc' = "check"
            /\ res' = NoRes
       ELSE /\ pc' = "panicked"
            /\ res' = [op |-> "expect", kind |-> "panic", idx |-> 0,
                       text |-> <<>>]
  /\ NoEmit
  /\ UNCHANGED <<sess, inPipe, out, pos>>
  /\ UNCHANGED osVars
  /\ due' = (RegexSetNew(ns) /\ TextIn(ns, out, pos))
  /\ UNCHANGED got

\* Time passes during a call.
Tick ==
  /\ pc \in {"check", "read", "cont"}
  /\ elapsed < MaxElapsed
  /\ elapsed' = elapsed + 1
  /\ UNCHANGED <<sess, pc, inPipe, out, pos, res>>
  /\ UNCHANGED <<needles, timeout, b, bsrc, cbuf, torn, startPos>>
  /\ UNCHANGED osVars
  /\ UNCHANGED emitVars
  /\ UNCHANGED histVars

\* Variant of expect_deadline: the timeout failure carries no text.
expect_deadline_empty ==
  /\ pc = "check"
  /\ IF elapsed >= timeout
       THEN /\ pc' = "idle"
            /\ res' = [op |-> "expect", kind |-> "timeout", idx |-> 0,
                       text |-> <<>>]
            /\ got' = got \o <<>>
       ELSE /\ pc' = "read"
            /\ UNCHANGED <<res, got>>
  /\ UNCHANGED <<sess, inPipe, out, pos>>
  /\ UNCHANGED expectVars
  /\ UNCHANGED osVars
  /\ UNCHANGED emitVars
  /\ UNCHANGED due

\* Variant of expect_deadline: `e > timeout`.
expect_deadline_gt ==
  /\ pc = "check"
  /\ IF elapsed > timeout
       THEN /\ pc' = "idle"
            /\ res' = [op |-> "expect", kind |-> "timeout", idx |-> 0,
                       text |-> b]
            /\ got' = got \o b
       ELSE /\ pc' = "read"
            /\ UNCHANGED <<res, got>>
  /\ UNCHANGED <<sess, inPipe, out, pos>>
  /\ UNCHANGED expectVars
  /\ UNCHANGED osVars
  /\ UNCHANGED emitVars
  /\ UNCHANGED due

\* Lines 156-159 and 175: the deadline test at the head of the loop.
expect_deadline ==
  /\ pc = "check"
  /\ IF elapsed >= timeout
       THEN /\ pc' = "idle"
            /\ res' = [op |-> "expect", kind |-> "timeout", idx |-> 0,
                       text |-> b]
            /\ got' = got \o b
       ELSE /\ pc' = "read"
            /\ UNCHANGED <<res, got>>
  /\ UNCHANGED <<sess, inPipe, out, pos>>
  /\ UNCHANGED expectVars
  /\ UNCHANGED osVars
  /\ UNCHANGED emitVars
  /\ UNCHANGED due

\* Variant of Pushed: the character is pushed and the set is not tested.
PushedUntested(ch, at) ==
  /\ b' = Append(b, ch)
  /\ bsrc' = Append(bsrc, at)
  /\ pc' = "check"
  /\ UNCHANGED <<res, got>>

\* Variant of Pushed: the set is tested after every second character only.
PushedEverySecond(ch, at) ==
  LET nb == Append(b, ch)
      n == IF Len(nb) % 2 = 0
             THEN FirstYielded(SetMatches(needles, nb), 0, Len(needles))
             ELSE -1
  IN /\ b' = nb
     /\ bsrc' = Append(bsrc, at)
     /\ IF n >= 0
          THEN /\ pc' = "idle"
               /\ res' = [op |-> "expect", kind |-> "match", idx |-> n,
                          text |-> nb]
               /\ got' = got \o nb
          ELSE /\ pc' = "check"
               /\ UNCHANGED <<res, got>>

\* Lines 164 and 170-172: push the character, then test the set.
Pushed(ch, at) ==
  LET nb == Append(b, ch)
      n == FirstYielded(SetMatches(needles, nb), 0, Len(needles))
  IN /\ b' = nb
     /\ bsrc' = Append(bsrc, at)
     /\ IF n >= 0
          THEN /\ pc' = "idle"
               /\ res' = [op |-> "expect", kind |-> "match", idx |-> n,
                          text |-> nb]
               /\ got' = got \o nb
          ELSE /\ pc' = "check"
               /\ UNCHANGED <<res, got>>

\* Variant of Continue: `break`, which leaves the loop for the timeout failure.
Break ==
  /\ pc' = "idle"
  /\ res' = [op |-> "expect", kind |-> "timeout", idx |-> 0, text |-> b]
  /\ got' = got \o b
  /\ UNCHANGED <<b, bsrc>>

\* Lines 165 and 167: `continue`.
Continue ==
  /\ pc' = "check"
  /\ UNCHANGED <<b, bsrc, res, got>>

\* Line 162, c.next(), first part: read one byte.  The read blocks while the
\* pipe is empty and the subprocess holds its writing end; at end of stream
\* it yields None.
expect_next ==
  /\ pc = "read"
  /\ IF Avail = 0
       THEN /\ child # "running"
            /\ Continue
            /\ UNCHANGED <<pos, cbuf>>
       ELSE LET bt == out[pos + 1]
                w == utf8_char_width(bt)
            IN /\ pos' = pos + 1
               /\ IF w = 1
                    THEN Pushed(bt, pos + 1) /\ UNCHANGED cbuf
                    ELSE IF w = 0
                      THEN Continue /\ UNCHANGED cbuf
                      ELSE /\ cbuf' = <<bt>>
                           /\ pc' = "cont"
                           /\ UNCHANGED <<b, bsrc, res, got>>
  /\ UNCHANGED <<sess, inPipe, out>>
  /\ UNCHANGED <<needles, timeout, elapsed, torn, startPos>>
  /\ UNCHANGED osVars
  /\ UNCHANGED emitVars
  /\ UNCHANGED due

\* Line 162, c.next(), second part: read the remaining bytes of a character
\* of width 2 to 4, then decode.  End of stream inside a character is a
\* decoding error.
expect_cont ==
  /\ pc = "cont"
  /\ IF Avail = 0
       THEN /\ child # "running"
            /\ Continue
            /\ cbuf' = <<>>
            /\ UNCHANGED pos
       ELSE LET nbuf == Append(cbuf, out[pos + 1])
            IN /\ pos' = pos + 1
               /\ IF Len(nbuf) < utf8_char_width(nbuf[1])
                    THEN /\ cbuf' = nbuf
                         /\ UNCHANGED <<pc, b, bsrc, res, got>>
                    ELSE /\ cbuf' = <<>>
                         /\ IF from_utf8(nbuf) >= 0
                              THEN Pushed(from_utf8(nbuf), pos + 1 - Len(cbuf))
                              ELSE Continue
  /\ UNCHANGED <<sess, inPipe, out>>
  /\ UNCHANGED <<needles, timeout, elapsed, torn, startPos>>
  /\ UNCHANGED osVars
  /\ UNCHANGED emitVars
  /\ UNCHANGED due

\* Line 165: the read itself fails; the error is dropped and the loop goes on.
expect_read_error ==
  /\ pc \in {"read", "cont"}
  /\ Continue
  /\ cbuf' = <<>>
  /\ torn' = (torn \/ cbuf # <<>>)
  /\ UNCHANGED <<sess, inPipe, out, pos>>
  /\ UNCHANGED <<needles, timeout, elapsed, startPos>>
  /\ UNCHANGED osVars
  /\ UNCHANGED emitVars
  /\ UNCHANGED histVars

(***************************************************************************)
(* The subprocess (spawned by base.rs 39-44).                              *)
(***************************************************************************)
\* The subprocess writes one byte to its output; it blocks on a full pipe.
child_write(bt) ==
  /\ child = "running"
  /\ Len(out) < MaxOut
  /\ Avail < OutCap
  /\ out' = Append(out, bt)
  /\ UNCHANGED <<sess, pc, inPipe, pos, res>>
  /\ UNCHANGED osVars
  /\ UNCHANGED emitVars
  /\ UNCHANGED expectVars
  /\ due' = (due \/ (/\ pc \in {"check", "read", "cont"}
                      /\ elapsed < timeout
                      /\ TextIn(needles, out', startPos)))
  /\ UNCHANGED got

\* The subprocess reads one byte of its input.
child_read ==
  /\ child = "running"
  /\ inPipe # <<>>
  /\ inPipe' = Tail(inPipe)
  /\ UNCHANGED <<sess, pc, out, pos, res>>
  /\ UNCHANGED osVars
  /\ UNCHANGED emitVars
  /\ UNCHANGED expectVars
  /\ UNCHANGED histVars

\* An echoing subprocess (cat) copies one byte of its input to its output; it
\* blocks on a full output pipe.
child_echo ==
  /\ child = "running"
  /\ inPipe # <<>>
  /\ Len(out) < MaxOut
  /\ Avail < OutCap
  /\ out' = Append(out, Head(inPipe))
  /\ inPipe' = Tail(inPipe)
  /\ due' = (due \/ (/\ pc \in {"check", "read", "cont"}
                      /\ elapsed < timeout
                      /\ TextIn(needles, out', startPos)))
  /\ UNCHANGED <<sess, pc, pos, res, got>>
  /\ UNCHANGED osVars
  /\ UNCHANGED emitVars
  /\ UNCHANGED expectVars

\* The subprocess exits by itself: its ends of the pipes are closed, what it
\* left unread is gone, and it stays in the process table until waited for.
child_exit ==
  /\ child = "running"
  /\ child' = "exited"
  /\ inPipe' = <<>>
  /\ UNCHANGED <<spawned, fds, killed, sess, pc, out, pos, res>>
  /\ UNCHANGED emitVars
  /\ UNCHANGED expectVars
  /\ UNCHANGED histVars

(***************************************************************************)
(* Drop::drop (base.rs 184-186), followed by the drop of the field         *)
(* `child`, which closes the three pipe handles.  It runs when the owner   *)
(* lets the session go, between calls or while a panic unwinds.            *)
(***************************************************************************)
\* Variant of kill_ok: the termination request fails for a subprocess that
\* has exited.
kill_ok_running(c) == c = "running"

\* Child::kill: the handle never learns an exit status (nothing in base.rs
\* waits for the subprocess), so the signal is sent, and it is accepted for
\* any process that is still in the process table.
kill_ok(c) == c \in {"running", "exited", "killed"}

\* Variant of AfterKill: the signal is not delivered.
AfterKillNoSignal(c) == c

\* State of the subprocess after Drop::drop.  The process is terminated;
\* nothing waits for it.
AfterKill(c) == IF c = "running" THEN "killed" ELSE c

drop ==
  /\ sess = "live"
  /\ pc \in {"idle", "panicked"}
  /\ killed' = TRUE
  /\ IF kill_ok(child)
       THEN /\ child' = AfterKill(child)
            /\ UNCHANGED <<pc, res>>
       ELSE /\ pc' = "panicked"
            /\ res' = [op |-> "drop", kind |-> "panic", idx |-> 0,
                       text |-> <<>>]
            /\ UNCHANGED child
  /\ sess' = "released"
  /\ fds' = "closed"
  /\ inPipe' = <<>>
  /\ UNCHANGED <<spawned, out, pos>>
  /\ UNCHANGED emitVars
  /\ UNCHANGED expectVars
  /\ UNCHANGED histVars

Next ==
  \/ new_ok
  \/ new_err
  \/ \E bt \in OutBytes : child_write(bt)
  \/ child_read
  \/ child_exit
  \/ \E d \in EmitTexts : emit_enter(d)
  \/ emit_write_all
  \/ \E ns \in NeedleLists, t \in Timeouts : expect_enter(ns, t)
  \/ Tick
  \/ expect_deadline
  \/ expect_next
  \/ expect_cont
  \/ expect_read_error
  \/ drop

Spec == Init /\ [][Next]_vars

\* The same program driving an echoing subprocess.
EchoNext ==
  \/ new_ok
  \/ new_err
  \/ child_echo
  \/ child_exit
  \/ \E d \in EmitTexts : emit_enter(d)
  \/ emit_write_all
  \/ \E ns \in NeedleLists, t \in Timeouts : expect_enter(ns, t)
  \/ Tick
  \/ expect_deadline
  \/ expect_next
  \/ expect_cont
  \/ expect_read_error
  \/ drop

EchoSpec == Init /\ [][EchoNext]_vars

\* The caller's thread runs whenever it can, and time passes.  Nothing
\* obliges the subprocess to write, read or exit, nor a read to fail.
FairSpec ==
  /\ Spec
  /\ WF_vars(Tick)
  /\ WF_vars(expect_deadline)
  /\ WF_vars(expect_next)
  /\ WF_vars(expect_cont)
  /\ WF_vars(emit_write_all)

(***************************************************************************)
(* Properties.                                                             *)
(***************************************************************************)
\* The character encoded in out from index i on.
CharAt(i) ==
  LET w == utf8_char_width(out[i])
  IN IF w = 1 THEN out[i]
     ELSE IF w = 0 \/ i + w - 1 > Len(out) THEN -1
     ELSE from_utf8(SubSeq(out, i, i + w - 1))

ExpectReturned == res.op = "expect" /\ res.kind \in {"match", "timeout"}

\* C1: when expect returns a match (i, text), pattern i occurs in text and no
\* pattern with a lower index occurs in text, wherever the occurrences lie.
C1_LowestMatchingIndex ==
  (res.op = "expect" /\ res.kind = "match") =>
    /\ res.idx \in 0..(Len(needles) - 1)
    /\ Occurs(needles[res.idx + 1], res.text)
    /\ \A j \in 0..(res.idx - 1) : ~Occurs(needles[j + 1], res.text)

\* Index 0 is returned for "\u{e9}" although pattern 1, "a\u{e9}", occurs in
\* the text too, and starts earlier.
C1_Witness ==
  /\ res.op = "expect" /\ res.kind = "match" /\ res.idx = 0
  /\ needles = << <<233>>, <<97, 233>> >>
  /\ res.text = <<97, 233>>

\* C2: every expect call with a valid pattern set eventually returns (with a
\* silent, living subprocess: a timeout once the deadline has passed).
C2_ExpectEventuallyReturns ==
  (pc \in {"check", "read", "cont"}) ~> (pc = "idle")

\* C3: the accumulator of a call holds only characters of the stream that lie
\* after everything earlier calls consumed, each taken once and in stream
\* order; in particular a call that has consumed nothing has an empty one.
C3_NoCharacterTwice ==
  /\ Len(bsrc) = Len(b)
  /\ \A k \in 1..Len(b) :
       /\ bsrc[k] > startPos
       /\ bsrc[k] <= pos
       /\ CharAt(bsrc[k]) = b[k]
       /\ k > 1 => bsrc[k] > bsrc[k - 1]
  /\ ExpectReturned => res.text = b
  /\ (pc \in {"check", "read"} /\ pos = startPos) => b = <<>>

\* A later call times out although the marker it waits for went by in the
\* part of the stream that earlier calls consumed.
C3_Witness ==
  /\ res.op = "expect" /\ res.kind = "timeout"
  /\ timeout > 0
  /\ startPos > 0
  /\ pos > startPos
  /\ Occurs(needles[1], Decoded(SubSeq(out, 1, startPos)))

\* C4: the payload of a timeout is exactly the characters of the stretch of
\* the stream the call consumed, in stream order (empty if there is none);
\* when a failed read dropped part of a character, still every payload
\* character is one of that stretch, in order.
C4_TimeoutPayload ==
  (res.op = "expect" /\ res.kind = "timeout") =>
    /\ Len(bsrc) = Len(res.text)
    /\ \A k \in 1..Len(res.text) :
         /\ bsrc[k] \in (startPos + 1)..pos
         /\ CharAt(bsrc[k]) = res.text[k]
         /\ k > 1 => bsrc[k] > bsrc[k - 1]
    /\ ~torn => res.text = Decoded(SubSeq(out, startPos + 1, pos))
    /\ pos = startPos => res.text = <<>>

\* A timeout whose payload holds a two-byte character and a one-byte one,
\* after an undecodable byte was skipped.
C4_Witness ==
  /\ res.op = "expect" /\ res.kind = "timeout"
  /\ ~torn
  /\ res.text = <<233, 97>>
  /\ pos - startPos = 4

\* C5: a call with a valid pattern set that has returned has returned a match
\* on its text or a timeout, and a timeout only with the deadline reached:
\* neither a failed read nor the end of the stream ends the call.
C5_MatchOrTimeout ==
  (res.op = "expect" /\ RegexSetNew(needles)) =>
    /\ pc = "idle"
    /\ res.kind \in {"match", "timeout"}
    /\ res.kind = "timeout" => elapsed >= timeout
    /\ res.kind = "match" => SetMatches(needles, res.text) # {}

\* A call met a failed read inside a character, then the end of the stream,
\* and returned its timeout at the deadline.
C5_Witness ==
  /\ res.op = "expect" /\ res.kind = "timeout"
  /\ torn
  /\ timeout > 0
  /\ child = "exited"
  /\ Avail = 0

\* C6: a pattern list that does not compile is reported to the caller as a
\* failure value; the call does not panic.
C6_BadPatternIsFailureValue ==
  (needles # <<>> /\ ~RegexSetNew(needles)) =>
    (pc # "panicked" /\ res.kind # "panic")

\* C7: after the session is released its subprocess is not running.
C7_ReleasedNotRunning ==
  sess = "released" => (killed /\ child # "running")

\* The session is released after an expect that timed out, and the subprocess
\* had not exited by itself.
C7_Witness ==
  /\ sess = "released"
  /\ child = "killed"
  /\ res.op = "expect" /\ res.kind = "timeout"

\* C8: after teardown the pipes are closed and the subprocess has been
\* reaped.
C8_NothingHeldAfterTeardown ==
  sess = "released" => (fds = "closed" /\ child = "reaped")

\* C9 as stated: emit returns success only with exactly the bytes of the text
\* written, in order; and a call that finds the pipe closed, the subprocess
\* having exited, returns an error.
C9_SendContract ==
  [][ /\ (pc = "emit" /\ pc' = "idle" /\ res'.kind = "ok")
           => (sent' = as_bytes(data') /\ Decoded(sent') = data')
      /\ (pc = "emit" /\ child # "running" /\ sent = <<>> /\ pc' = "idle")
           => res'.kind = "err" ]_vars

\* C9 amended: emit returns success only with exactly the bytes of the text
\* written, in order; a call that has bytes left to write when the pipe is
\* closed returns an error at once, writing nothing more.
C9_SendContractAmended ==
  [][ /\ (pc = "emit" /\ pc' = "idle" /\ res'.kind = "ok")
           => (sent' = as_bytes(data') /\ Decoded(sent') = data')
      /\ (pc = "emit" /\ child # "running" /\ rest # <<>>)
           => (pc' = "idle" /\ res'.kind = "err" /\ sent' = sent) ]_vars

\* A two-byte text has been written in full, in two writes.
C9_Witness ==
  /\ res.op = "emit" /\ res.kind = "ok"
  /\ data = <<233>>
  /\ sent = <<195, 169>>

\* C10: when process creation fails, new returns the error, and there is no
\* session, no subprocess, no pipe, and no effect of emit, expect or drop.
C10_FailedSpawnLeavesNothing ==
  spawned = "err" =>
    /\ res = [op |-> "new", kind |-> "err", idx |-> 0, text |-> <<>>]
    /\ sess = "failed"
    /\ child = "none"
    /\ fds = "none"
    /\ ~killed
    /\ pc = "idle"
    /\ inPipe = <<>> /\ out = <<>> /\ pos = 0
    /\ data = <<>> /\ sent = <<>>
    /\ needles = <<>> /\ b = <<>>

C10_Witness ==
  /\ spawned = "err"
  /\ sess = "failed"
  /\ res.op = "new" /\ res.kind = "err"

\* C11 as stated: once a text in which a pattern matches has been written to
\* the stream before the deadline of the expect call that follows a send,
\* that call returns a match on a text in which the returned pattern occurs,
\* not a timeout.
C11_WrittenInTimeIsMatched ==
  (res.op = "expect" /\ due) =>
    /\ res.kind = "match"
    /\ Occurs(needles[res.idx + 1], res.text)

\* C11 amended: a call returns a match, on a text in which the returned
\* pattern occurs, whenever the characters it has consumed by the time one of
\* its deadline tests finds the deadline reached contain a match; it returns
\* a timeout only if no pattern occurs in any non-empty prefix of what it
\* consumed, however early the rest of the text was written.
C11_ConsumedInTimeIsMatched ==
  ExpectReturned =>
    /\ res.kind = "match" =>
         /\ res.idx \in 0..(Len(needles) - 1)
         /\ Occurs(needles[res.idx + 1], res.text)
    /\ res.kind = "timeout" =>
         \A n \in 1..Len(res.text) : \A i \in DOMAIN needles :
           ~Occurs(needles[i], SubSeq(res.text, 1, n))
    /\ ~torn => res.text = Decoded(SubSeq(out, startPos + 1, pos))

\* "a" and then "\u{e9}" were sent, the subprocess echoed them before the
\* deadline, and the call that followed returned index 0 for "a\u{e9}".
C11_Witness ==
  /\ res.op = "expect" /\ res.kind = "match" /\ res.idx = 0
  /\ due
  /\ needles = << <<97, 233>>, <<233>> >>
  /\ res.text = <<97, 233>>
  /\ out = <<97, 195, 169>>

\* C12: the text of a match is the shortest non-empty prefix of the
\* characters of the call in which any pattern occurs.
C12_ShortestMatchingPrefix ==
  (res.op = "expect" /\ res.kind = "match") =>
    /\ res.text = b
    /\ Len(res.text) >= 1
    /\ \E i \in DOMAIN needles : Occurs(needles[i], res.text)
    /\ \A n \in 1..(Len(res.text) - 1) : \A i \in DOMAIN needles :
         ~Occurs(needles[i], SubSeq(res.text, 1, n))

\* A match found at the third character of the call.
C12_Witness ==
  /\ res.op = "expect" /\ res.kind = "match"
  /\ needles = << <<97, 233>>, <<233>> >>
  /\ res.text = <<97, 97, 233>>

\* The characters a UTF-8 decoder finds in a stretch of bytes: a byte that
\* does not start a valid character is passed over alone, and decoding goes
\* on with the byte that follows it.
RECURSIVE Utf8Chars(_)
Utf8Chars(s) ==
  IF s = <<>> THEN <<>>
  ELSE IF s[1] < 128 THEN <<s[1]>> \o Utf8Chars(Tail(s))
  ELSE IF /\ s[1] >= 194 /\ s[1] <= 223
          /\ Len(s) >= 2
          /\ s[2] >= 128 /\ s[2] <= 191
    THEN <<(s[1] - 192) * 64 + (s[2] - 128)>>
           \o Utf8Chars(SubSeq(s, 3, Len(s)))
    ELSE Utf8Chars(Tail(s))

\* C13: between calls, the texts expect has returned, one after the other,
\* are the decodable characters of the part of the stream consumed so far.
C13_ReturnedTextsAreTheStream ==
  (sess = "live" /\ pc = "idle") => got = Utf8Chars(SubSeq(out, 1, pos))

\* A step in which the call takes up the next attempt to read: it leaves the
\* deadline test for the read.
ReadAttempt == pc # "read" /\ pc' = "read"

\* A step in which the call returns a timeout.
TimeoutReturn ==
  pc \in {"check", "read", "cont"} /\ pc' = "idle" /\ res'.kind = "timeout"

\* C14: every attempt to read follows a deadline test that found the deadline
\* not reached, and bytes are consumed in such attempts only; a timeout is
\* returned only by a test that finds elapsed >= timeout, and such a test
\* returns it at once, with nothing more consumed; with timeout zero the
\* payload is empty and nothing is consumed.
C14_DeadlineBeforeEveryRead ==
  [][ /\ ReadAttempt => (pc = "check" /\ elapsed < timeout)
      /\ pos' # pos => (pc \in {"read", "cont"} /\ pos' > pos)
      /\ TimeoutReturn =>
           (pc = "check" /\ elapsed >= timeout /\ pos' = pos /\ res'.text = b)
      /\ (pc = "check" /\ elapsed >= timeout /\ pc' # "check") => TimeoutReturn
      /\ (TimeoutReturn /\ timeout = 0) =>
           (res'.text = <<>> /\ pos' = startPos) ]_vars

\* A call with timeout zero has returned a timeout, nothing consumed, while a
\* text in which its pattern matches was waiting in the pipe.
C14_Witness ==
  /\ res.op = "expect" /\ res.kind = "timeout"
  /\ timeout = 0
  /\ res.text = <<>>
  /\ pos = startPos
  /\ Avail > 0
  /\ TextIn(needles, out, startPos)

\* A step in which the call consumes the last byte of a unit that is not a
\* valid character, or meets the end of the stream inside a character.
DiscardStep ==
  \/ /\ pc = "read" /\ pos' = pos + 1
     /\ out[pos + 1] >= 128
     /\ (out[pos + 1] < 194 \/ out[pos + 1] > 244)
  \/ /\ pc = "cont" /\ pos' = pos + 1
     /\ Len(cbuf) = 1 /\ cbuf[1] >= 194 /\ cbuf[1] <= 223
     /\ (out[pos + 1] < 128 \/ out[pos + 1] > 191)
  \/ /\ pc = "cont" /\ pos' = pos /\ pc' # "cont"

\* C15: consuming a unit that is not a valid character changes neither the
\* accumulator nor the result, and the scan goes on with the next deadline
\* test; every character that enters an accumulator is a valid character that
\* starts at the unit just read, past every unit discarded before.
C15_UndecodableIsDiscarded ==
  [][ /\ DiscardStep =>
           (b' = b /\ bsrc' = bsrc /\ res' = res /\ got' = got
            /\ pc' = "check")
      /\ Len(b') > Len(b) =>
           /\ pc \in {"read", "cont"}
           /\ b' = Append(b, CharAt(pos' - Len(cbuf)))
           /\ CharAt(pos' - Len(cbuf)) >= 0
           /\ bsrc' = Append(bsrc, pos' - Len(cbuf)) ]_vars

\* A call consumed three bytes, two of which formed an undecodable unit, and
\* returned the one character that followed.
C15_Witness ==
  /\ res.op = "expect" /\ res.kind = "match"
  /\ ~torn
  /\ pos = startPos + 3
  /\ out[startPos + 1] = 195 /\ out[startPos + 2] = 195
  /\ res.text = <<97>>

\* C16: release always issues the forced termination and never takes the
\* could-not-kill path, also when the subprocess has exited by itself.
C16_KillOfExitedSucceeds ==
  sess = "released" =>
    /\ killed
    /\ fds = "closed"
    /\ res.op # "drop"
    /\ pc = "panicked" => res.op = "expect"

\* The session was released, normally, after its subprocess had exited.
C16_Witness ==
  /\ sess = "released"
  /\ child = "exited"
  /\ killed
  /\ pc = "idle"

HasEmptyPattern == \E i \in DOMAIN needles : needles[i] = <<>>

\* C17: expect never returns a match with an empty accumulator; with a
\* pattern that matches the empty string the match comes with the first
\* character, and a timeout is returned if no character arrives.
C17_NoMatchOnEmptyAccumulator ==
  /\ (res.op = "expect" /\ res.kind = "match") => Len(res.text) >= 1
  /\ (ExpectReturned /\ HasEmptyPattern) =>
       /\ res.kind = "match" => Len(res.text) = 1
       /\ res.kind = "timeout" => res.text = <<>>
  /\ (pc \in {"check", "read", "cont"} /\ HasEmptyPattern) => b = <<>>

\* A call with the pattern "" consumed bytes, none of them a character, and
\* returned a timeout.
C17_Witness ==
  /\ res.op = "expect" /\ res.kind = "timeout"
  /\ HasEmptyPattern
  /\ timeout > 0
  /\ pos > startPos
  /\ res.text = <<>>

\* C18: with an echoing subprocess, the caller is never blocked in emit on a
\* full input pipe while the subprocess is blocked on a full output pipe.
C18_SendNeverStuck ==
  ~(/\ pc = "emit"
    /\ rest # <<>>
    /\ child = "running"
    /\ Len(inPipe) = InCap
    /\ Avail = OutCap)

====
